---- MODULE Spec2Model ----
(***************************************************************************)
(* TaskScheduler (src/src/utilsLib/TickScheduler.js): one task, the tick   *)
(* source it registers with, and the user callbacks that may call back     *)
(* into the task while one of its handlers is on the stack.                *)
(***************************************************************************)
EXTENDS Integers, Sequences, FiniteSets, TLC

\* ---------------------------------------------------------------- bounds
MaxDelay == 3
MaxTicks == 6
MaxCbs == 2
MaxYields == 3
MaxJobTicks == 3
MaxJobCbs == 2
MaxSize == 3
MaxItems == 5
MaxSlots == 3
MaxStack == 3
AngleStep == 15
TDen == 2
MaxWait == 6
MaxLoaderTicks == 8
MaxPlayers == 2

\* delay arguments handed to runInterval / runTimeout (those below 1 are coerced to 1)
DelayArgs == (0 - 1) .. MaxDelay
\* handles system.runInterval / system.runTimeout may return (opaque numbers)
Handles == {0, 1}
\* the value of #id after abort() released it
Undefined == 0 - 1

TaskStatus == {"pending", "running", "paused", "completed", "failed", "aborted"}

VARIABLES
  delay,              \* #delay
  isInterval,         \* #isInterval
  ticksRemaining,     \* #ticksRemaining
  id,                 \* #id
  status,             \* #status
  paused,             \* #paused
  completeCallbacks,  \* #completeCallbacks (registration ids, in push order)
  sysRun,             \* tick source: "live", "fired" (one-shot consumed), "cleared"
  sysDelay,           \* tick source: ticks until the one-shot registration fires
  pc,                 \* "idle", "cb" (inside #callback), "oc" (inside a completion callback)
  ocIdx,              \* index the for-of iterator of #runOnComplete is at
  delayArg,           \* the delay argument runInterval / runTimeout was called with
  handle,             \* handle the tick source returned at registration
  tickNo,             \* ticks delivered since creation
  fireTicks,          \* tick numbers on which #callback was invoked
  runTicks,           \* ticks delivered in status running since creation / last firing
  fireGaps,           \* values of runTicks at which a firing happened
  invoked,            \* completion callbacks invoked so far, in order
  invokedIn,          \* status seen at each of those invocations
  nextCb,             \* next fresh registration id for onComplete
  lateCbs,            \* registrations made while the status was already completed
  atCompletion,       \* #completeCallbacks at the moment the status became completed
  lastOp,             \* last operation performed
  lastRet,            \* its outcome: "this", "throw", "none"
  everPaused,         \* pause() has succeeded at least once
  everAborted,        \* abort() has been called at least once
  threw,              \* #callback has thrown
  outcomes,           \* for each completion callback that has ended: TRUE if it threw
  handlerExit,        \* how the last #tick / #executeOnce call ended: "none" yet, "returned", "threw"
  \* JobPromise (src/unnamed/part_001)
  runJobAvailable,    \* whether system.runJob exists
  onProgress,         \* whether an onProgress callback was given
  generator,          \* values the job's generator still yields before it is done
  currentTick,        \* system.currentTick
  lastTick,           \* lastTick of the system.runJob path
  sentProgress,       \* sentProgress of the current run() of the fallback path
  jobPc,              \* "job" (runJob generator alive), "run" (inside run()), "scheduled", "done"
  settled,            \* "pending", "resolved", "rejected"
  reports,            \* onProgress calls made during the current tick
  steps,              \* generator steps executed during the current tick
  thenCallbacks,      \* this.thenCallbacks: [id, throws] records in push order
  catchCallbacks,     \* this.catchCallbacks
  finallyCallbacks,   \* this.finallyCallbacks
  nextJobCb,          \* next fresh callback id for then / catch / finally
  dispatch,           \* "none", "reject" (_resolve threw, _reject is due), "finished", "unhandled"
  calls,              \* callback invocations so far: <<kind, id, argument>>
  atDispatch,         \* the three callback lists when _resolve / _reject first ran, or <<>>
  \* MemoryBuffer (src/src/utilsLib/Misc-Utils.js)
  maxSize,            \* this.maxSize
  buffer,             \* this.buffer
  nextItem,           \* next fresh item handed to add()
  lastAdd,            \* <<buffer before, datas>> of the last add(), or <<>>
  got,                \* what the last get / getFirst / getLast returned (a sequence)
  \* InventoryUtils.removeItem (src/src/utilsLib/Inventory-Utils.js)
  container,          \* the slots: [typeId, amount] records, or Empty
  before,             \* the container when removeItem was called
  request,            \* <<itemId, amount>> of the removeItem call, or <<>>
  invPc,              \* "ready", "removed"
  \* AngleUtils.interpolateCircular (src/unnamed/part_000)
  angleA,             \* a
  angleB,             \* b
  angleT,             \* t, in units of 1 / TDen
  angleDelta,         \* delta as it is when the function returns
  angleResult,        \* the value returned, in units of 1 / TDen
  anglePc,            \* "args", "done"
  \* DimensionUtils.chunkLoader (src/src/utilsLib/Dimension-Utils.js)
  loaderPc,           \* "call", "returned" (invalid argument), "polling", "stopped"
  pollInterval,       \* the polling registration: "none", "live", "cleared"
  clock,              \* Date.now() - (timeout - 20000), in steps
  loaderTicks,        \* polling ticks delivered
  addCommands,        \* `tickingarea add` commands issued
  removeCommands,     \* `tickingarea remove` commands issued
  clearRuns,          \* system.clearRun(interval) calls made
  promise,            \* "pending", "resolved", "rejected"
  loadedNow,          \* dim.getBlock(loc) on the last polling tick
  expiredNow,         \* Date.now() > timeout on the last polling tick
  \* CustomEvents.onJump (src/utilities/Custom-Events.js)
  jumpingPlayers,     \* the Map: per player "unset", "true" or "false"
  isJumping,          \* player.isJumping ("true" / "false") as read on the last tick, "skipped" if not read
  lastSample,         \* the value read for the player before that, "none" if never read
  jumpCalls,          \* callBack invocations per player on the last tick
  callBackThrew       \* whether callBack has ever thrown

taskVars == <<delay, isInterval, ticksRemaining, id, status, paused, completeCallbacks>>
sysVars == <<sysRun, sysDelay>>
ctlVars == <<pc, ocIdx>>
histVars == <<delayArg, handle, tickNo, fireTicks, runTicks, fireGaps, invoked, invokedIn, nextCb,
              lateCbs, atCompletion, lastOp, lastRet, everPaused, everAborted, threw,
              outcomes, handlerExit>>
jobVars == <<runJobAvailable, onProgress, generator, currentTick, lastTick, sentProgress,
             jobPc, settled, reports, steps, thenCallbacks, catchCallbacks,
             finallyCallbacks, nextJobCb, dispatch, calls, atDispatch>>
bufVars == <<maxSize, buffer, nextItem, lastAdd, got>>
invVars == <<container, before, request, invPc>>
angleVars == <<angleA, angleB, angleT, angleDelta, angleResult, anglePc>>
loaderVars == <<loaderPc, pollInterval, clock, loaderTicks, addCommands, removeCommands, clearRuns,
                promise, loadedNow, expiredNow>>
jumpVars == <<jumpingPlayers, isJumping, lastSample, jumpCalls, callBackThrew>>
utilVars == <<angleVars, loaderVars, jumpVars>>
\* everything but the task
others == <<jobVars, bufVars, invVars, utilVars>>
\* the task and its tick source
taskAll == <<taskVars, sysVars, ctlVars, histVars>>
vars == <<taskVars, sysVars, ctlVars, histVars, others>>

\* the delay stored as given, without Math.max
MaxSecond(a, b) == b
Max(a, b) == IF a >= b THEN a ELSE b

\* ------------------------------------------------------------ constructor
\* the field initialiser `#status = TaskStatus.Pending` left in force
initialStatus == "pending"
\* `this.#status = TaskStatus.Running`
constructedStatus == "running"

constructor(callbackDelay, interval, h) ==
  /\ delay = Max(1, callbackDelay)
  /\ isInterval = interval
  /\ ticksRemaining = Max(1, callbackDelay)
  /\ status = constructedStatus
  /\ paused = FALSE
  /\ completeCallbacks = <<>>
  /\ id = h
  /\ sysRun = "live"
  /\ sysDelay = IF interval THEN 1 ELSE Max(1, callbackDelay)

\* every task handed to the tick source with #executeOnce as its handler
registersExecuteOnce(interval) == "executeOnce"
\* the handler the constructor registers: #tick with runInterval, #executeOnce
\* with runTimeout
registeredHandler(interval) == IF interval THEN "tick" ELSE "executeOnce"

\* the task's control state and observations right after construction
Fresh ==
  /\ pc = "idle"
  /\ ocIdx = 0
  /\ tickNo = 0
  /\ fireTicks = {}
  /\ runTicks = 0
  /\ fireGaps = {}
  /\ invoked = <<>>
  /\ invokedIn = <<>>
  /\ nextCb = 1
  /\ lateCbs = {}
  /\ atCompletion = <<>>
  /\ lastOp = "new"
  /\ lastRet = "this"
  /\ everPaused = FALSE
  /\ everAborted = FALSE
  /\ threw = FALSE
  /\ outcomes = <<>>
  /\ handlerExit = "none"

\* no JobPromise, MemoryBuffer or inventory call is under way
NoJob ==
  /\ runJobAvailable = TRUE /\ onProgress = FALSE /\ generator = 0
  /\ currentTick = 0 /\ lastTick = 0 /\ sentProgress = FALSE
  /\ jobPc = "done" /\ settled = "pending" /\ reports = 0 /\ steps = 0
  /\ thenCallbacks = <<>> /\ catchCallbacks = <<>> /\ finallyCallbacks = <<>>
  /\ nextJobCb = 1 /\ dispatch = "finished" /\ calls = <<>> /\ atDispatch = <<>>
NoBuffer == maxSize = 1 /\ buffer = <<>> /\ nextItem = 1 /\ lastAdd = <<>> /\ got = <<>>
Empty == [typeId |-> "none", amount |-> 0]
NoInventory == container = <<>> /\ before = <<>> /\ request = <<>> /\ invPc = "ready"
Players == 1 .. MaxPlayers
\* no angle is interpolated, no chunk is loaded, nobody listens for jumps
NoAngle ==
  /\ angleA = 0 /\ angleB = 0 /\ angleT = 0 /\ angleDelta = 0 /\ angleResult = 0
  /\ anglePc = "done"
NoLoader ==
  /\ loaderPc = "returned" /\ pollInterval = "none" /\ clock = 0 /\ loaderTicks = 0
  /\ addCommands = 0 /\ removeCommands = 0 /\ clearRuns = 0 /\ promise = "pending"
  /\ loadedNow = FALSE /\ expiredNow = FALSE
NoJump ==
  /\ jumpingPlayers = [p \in Players |-> "unset"]
  /\ isJumping = [p \in Players |-> "skipped"]
  /\ lastSample = [p \in Players |-> "none"]
  /\ jumpCalls = [p \in Players |-> 0]
  /\ callBackThrew = FALSE
NoUtils == NoAngle /\ NoLoader /\ NoJump

Init ==
  /\ \E d \in DelayArgs, i \in BOOLEAN, h \in Handles :
       /\ constructor(d, i, h)
       /\ delayArg = d
       /\ handle = h
  /\ Fresh
  /\ NoJob /\ NoBuffer /\ NoInventory /\ NoUtils

\* no task is scheduled
NoTask == constructor(1, FALSE, 1) /\ delayArg = 1 /\ handle = 1 /\ Fresh

\* ------------------------------------------------------------ pause / start
\* pause() without its second check (`status !== Running`)
pauseThrowsOnlyPaused(s) == s = "paused"
pauseThrows(s) == s = "paused" \/ s # "running"

pause ==
  /\ UNCHANGED others
  /\ lastOp' = "pause"
  /\ IF pauseThrows(status)
       THEN /\ lastRet' = "throw"
            /\ UNCHANGED <<status, paused, everPaused>>
       ELSE /\ paused' = TRUE
            /\ status' = "paused"
            /\ lastRet' = "this"
            /\ everPaused' = TRUE
  /\ UNCHANGED <<delay, isInterval, ticksRemaining, id, completeCallbacks>>
  /\ UNCHANGED <<sysVars, ctlVars, handlerExit>>
  /\ UNCHANGED <<outcomes, delayArg, handle, tickNo, fireTicks, runTicks, fireGaps, invoked, invokedIn, nextCb,
                 lateCbs, atCompletion, everAborted, threw>>

\* start() without its second check (`status !== Paused`)
startThrowsOnlyRunning(s) == s = "running"
startThrows(s) == s = "running" \/ s # "paused"
\* a start() that leaves the #paused flag as it is
pausedLeftSet == TRUE
\* `this.#paused = false`
pausedAfterStart == FALSE

start ==
  /\ UNCHANGED others
  /\ lastOp' = "start"
  /\ IF startThrows(status)
       THEN /\ lastRet' = "throw"
            /\ UNCHANGED <<status, paused>>
       ELSE /\ paused' = pausedAfterStart
            /\ status' = "running"
            /\ lastRet' = "this"
  /\ UNCHANGED <<delay, isInterval, ticksRemaining, id, completeCallbacks>>
  /\ UNCHANGED <<sysVars, ctlVars, handlerExit>>
  /\ UNCHANGED <<outcomes, delayArg, handle, tickNo, fireTicks, runTicks, fireGaps, invoked, invokedIn, nextCb,
                 lateCbs, atCompletion, everPaused, everAborted, threw>>

\* ------------------------------------------------------------------ abort
\* `if (this.#id)`: undefined and 0 are both falsy
Truthy(h) == h # Undefined /\ h # 0

\* system.clearRun(h) on the tick source's entry for this task
clearRun(h, r) == IF h = handle /\ r = "live" THEN "cleared" ELSE r

abortId(h) == IF Truthy(h) THEN Undefined ELSE h
abortRun(h, r) == IF Truthy(h) THEN clearRun(h, r) ELSE r
\* abort() without its check for a completed or failed task
abortStatusAlways(s) == "aborted"
abortStatus(s) == IF s \in {"completed", "failed"} THEN s ELSE "aborted"

\* an abort() that rejects a task already aborted, the way pause() and start() do
abortThrowsIfAborted(s) == s = "aborted"
\* abort() has no throw statement
abortThrows(s) == FALSE

abort ==
  /\ UNCHANGED others
  /\ lastOp' = "abort"
  /\ everAborted' = TRUE
  /\ IF abortThrows(status)
       THEN /\ lastRet' = "throw"
            /\ UNCHANGED <<id, sysRun, status>>
       ELSE /\ lastRet' = "this"
            /\ id' = abortId(id)
            /\ sysRun' = abortRun(id, sysRun)
            /\ status' = abortStatus(status)
  /\ UNCHANGED <<delay, isInterval, ticksRemaining, paused, completeCallbacks, sysDelay>>
  /\ UNCHANGED <<ctlVars, handlerExit>>
  /\ UNCHANGED <<outcomes, delayArg, handle, tickNo, fireTicks, runTicks, fireGaps, invoked, invokedIn, nextCb,
                 lateCbs, atCompletion, everPaused, threw>>

\* ------------------------------------------------------------- onComplete
onComplete ==
  /\ UNCHANGED others
  /\ nextCb <= MaxCbs
  /\ lastOp' = "onComplete"
  /\ lastRet' = "this"
  /\ completeCallbacks' = Append(completeCallbacks, nextCb)
  /\ nextCb' = nextCb + 1
  /\ lateCbs' = IF status = "completed" THEN lateCbs \cup {nextCb} ELSE lateCbs
  /\ UNCHANGED <<delay, isInterval, ticksRemaining, id, status, paused>>
  /\ UNCHANGED <<sysVars, ctlVars, handlerExit>>
  /\ UNCHANGED <<outcomes, delayArg, handle, tickNo, fireTicks, runTicks, fireGaps, invoked, invokedIn,
                 atCompletion, everPaused, everAborted, threw>>

\* --------------------------------------------------------- tick delivery
\* an early return that only looks for a finished task
gateFinished(p, s) == s \in {"completed", "failed", "aborted"}
\* the early return shared by #tick and #executeOnce
gate(p, s) == p \/ s # "running"
\* the countdown tested before it is decremented (`this.#ticksRemaining-- <= 0`)
dueLate(n) == n <= 0
\* `--this.#ticksRemaining <= 0`
due(n) == n - 1 <= 0

\* history: a tick delivered to a task whose status is running
RunTick == IF status = "running" THEN runTicks + 1 ELSE runTicks

\* the tick source delivers a tick to a live interval registration: #tick()
tick ==
  /\ UNCHANGED others
  /\ pc = "idle" /\ tickNo < MaxTicks
  /\ registeredHandler(isInterval) = "tick" /\ sysRun = "live"
  /\ tickNo' = tickNo + 1
  /\ lastOp' = "tick"
  /\ lastRet' = "none"
  /\ IF gate(paused, status)
       THEN /\ UNCHANGED <<ticksRemaining, pc, fireTicks, fireGaps>>
            /\ runTicks' = RunTick
            /\ handlerExit' = "returned"
       ELSE /\ ticksRemaining' = ticksRemaining - 1
            /\ IF due(ticksRemaining)
                 THEN /\ pc' = "cb"
                      /\ fireTicks' = fireTicks \cup {tickNo + 1}
                      /\ fireGaps' = fireGaps \cup {RunTick}
                      /\ runTicks' = 0
                      /\ UNCHANGED handlerExit
                 ELSE /\ UNCHANGED <<pc, fireTicks, fireGaps>>
                      /\ runTicks' = RunTick
                      /\ handlerExit' = "returned"
  /\ UNCHANGED <<delay, isInterval, id, status, paused, completeCallbacks>>
  /\ UNCHANGED <<sysVars, ocIdx>>
  /\ UNCHANGED <<outcomes, delayArg, handle, invoked, invokedIn, nextCb, lateCbs, atCompletion,
                 everPaused, everAborted, threw>>

\* #callback() returned inside #tick
tickReturn ==
  /\ UNCHANGED others
  /\ pc = "cb" /\ registeredHandler(isInterval) = "tick"
  /\ ticksRemaining' = delay
  /\ pc' = "idle"
  /\ handlerExit' = "returned"
  /\ lastOp' = "return"
  /\ lastRet' = "none"
  /\ UNCHANGED <<delay, isInterval, id, status, paused, completeCallbacks>>
  /\ UNCHANGED <<sysVars, ocIdx>>
  /\ UNCHANGED <<outcomes, delayArg, handle, tickNo, fireTicks, runTicks, fireGaps, invoked, invokedIn, nextCb,
                 lateCbs, atCompletion, everPaused, everAborted, threw>>

\* a #tick whose try block has no catch clause
escapesTickUncaught == TRUE
\* `try { ... } catch (e) { ... }` around #callback() in #tick: nothing escapes
escapesTick == FALSE

\* #callback() threw inside #tick: status = Failed; this.abort()
tickThrow ==
  /\ UNCHANGED others
  /\ pc = "cb" /\ registeredHandler(isInterval) = "tick"
  /\ IF escapesTick
       THEN /\ handlerExit' = "threw"
            /\ UNCHANGED <<status, id, sysRun>>
       ELSE /\ handlerExit' = "returned"
            /\ status' = abortStatus("failed")
            /\ id' = abortId(id)
            /\ sysRun' = abortRun(id, sysRun)
  /\ pc' = "idle"
  /\ threw' = TRUE
  /\ lastOp' = "throw"
  /\ lastRet' = "none"
  /\ UNCHANGED <<delay, isInterval, ticksRemaining, paused, completeCallbacks, sysDelay, ocIdx>>
  /\ UNCHANGED <<outcomes, delayArg, handle, tickNo, fireTicks, runTicks, fireGaps, invoked, invokedIn, nextCb,
                 lateCbs, atCompletion, everPaused, everAborted>>

\* the tick source advances a live one-shot registration; on its last tick
\* the registration is consumed and #executeOnce() is called
timeoutTick ==
  /\ UNCHANGED others
  /\ pc = "idle" /\ tickNo < MaxTicks
  /\ registeredHandler(isInterval) = "executeOnce" /\ sysRun = "live"
  /\ tickNo' = tickNo + 1
  /\ lastOp' = "tick"
  /\ lastRet' = "none"
  /\ sysDelay' = sysDelay - 1
  /\ runTicks' = RunTick
  /\ IF sysDelay - 1 <= 0
       THEN /\ sysRun' = "fired"
            /\ IF gate(paused, status)
                 THEN UNCHANGED <<pc, fireTicks, fireGaps>> /\ handlerExit' = "returned"
                 ELSE /\ pc' = "cb"
                      /\ fireTicks' = fireTicks \cup {tickNo + 1}
                      /\ fireGaps' = fireGaps \cup {RunTick}
                      /\ UNCHANGED handlerExit
       ELSE UNCHANGED <<sysRun, pc, fireTicks, fireGaps, handlerExit>>
  /\ UNCHANGED <<taskVars, ocIdx>>
  /\ UNCHANGED <<outcomes, delayArg, handle, invoked, invokedIn, nextCb, lateCbs, atCompletion,
                 everPaused, everAborted, threw>>

\* a tick passes while the tick source holds no live registration of the task
idleTick ==
  /\ UNCHANGED others
  /\ pc = "idle" /\ tickNo < MaxTicks
  /\ sysRun # "live"
  /\ tickNo' = tickNo + 1
  /\ runTicks' = RunTick
  /\ lastOp' = "tick"
  /\ lastRet' = "none"
  /\ UNCHANGED <<taskVars, sysVars, ctlVars, handlerExit>>
  /\ UNCHANGED <<outcomes, delayArg, handle, fireTicks, fireGaps, invoked, invokedIn, nextCb, lateCbs,
                 atCompletion, everPaused, everAborted, threw>>

\* ------------------------------------------- #executeOnce / #runOnComplete
\* a loop bound that stops one element short
hasNextButLast(i, cbs) == i < Len(cbs) - 1
\* the for-of iterator over #completeCallbacks has another element after index i
hasNext(i, cbs) == i < Len(cbs)

\* #runOnComplete without the reset of the list
keepCallbacks(cbs) == cbs
\* `this.#completeCallbacks = []`
resetCallbacks(cbs) == <<>>

\* #callback() returned inside #executeOnce: status = Completed; #runOnComplete()
\* up to the first completion callback, or through `finally { this.abort() }`
\* when there is none
executeOnceReturn ==
  /\ UNCHANGED others
  /\ pc = "cb" /\ registeredHandler(isInterval) = "executeOnce"
  /\ lastOp' = "return"
  /\ lastRet' = "none"
  /\ atCompletion' = completeCallbacks
  /\ IF hasNext(0, completeCallbacks)
       THEN /\ status' = "completed"
            /\ pc' = "oc"
            /\ ocIdx' = 1
            /\ invoked' = Append(invoked, completeCallbacks[1])
            /\ invokedIn' = Append(invokedIn, "completed")
            /\ UNCHANGED <<completeCallbacks, id, sysRun, handlerExit>>
       ELSE /\ status' = abortStatus("completed")
            /\ completeCallbacks' = resetCallbacks(completeCallbacks)
            /\ id' = abortId(id)
            /\ sysRun' = abortRun(id, sysRun)
            /\ pc' = "idle"
            /\ handlerExit' = "returned"
            /\ UNCHANGED <<ocIdx, invoked, invokedIn>>
  /\ UNCHANGED <<delay, isInterval, ticksRemaining, paused, sysDelay>>
  /\ UNCHANGED <<outcomes, delayArg, handle, tickNo, fireTicks, runTicks, fireGaps, nextCb, lateCbs,
                 everPaused, everAborted, threw>>

\* `try { ... } catch (e) { ... } finally { ... }` in #executeOnce: nothing escapes
escapesExecuteOnce == FALSE

\* #callback() threw inside #executeOnce: status = Failed; finally this.abort()
executeOnceThrow ==
  /\ UNCHANGED others
  /\ pc = "cb" /\ registeredHandler(isInterval) = "executeOnce"
  /\ IF escapesExecuteOnce
       THEN /\ handlerExit' = "threw"
            /\ status' = abortStatus(status)
       ELSE /\ handlerExit' = "returned"
            /\ status' = abortStatus("failed")
  /\ id' = abortId(id)
  /\ sysRun' = abortRun(id, sysRun)
  /\ pc' = "idle"
  /\ threw' = TRUE
  /\ lastOp' = "throw"
  /\ lastRet' = "none"
  /\ UNCHANGED <<delay, isInterval, ticksRemaining, paused, completeCallbacks, sysDelay, ocIdx>>
  /\ UNCHANGED <<outcomes, delayArg, handle, tickNo, fireTicks, runTicks, fireGaps, invoked, invokedIn, nextCb,
                 lateCbs, atCompletion, everPaused, everAborted>>

\* a loop whose try/catch is missing: a throwing completion callback leaves it
escapesOnCompleteUncaught(cbThrew) == cbThrew
\* `try { cb(this.#status) } catch (e) { ... }` inside the loop: nothing leaves it
escapesOnComplete(cbThrew) == FALSE

\* a completion callback returned or threw (caught and logged): the loop of
\* #runOnComplete goes on to the next element of the live array, or ends,
\* clears the list and #executeOnce runs `finally { this.abort() }`
runOnComplete ==
  /\ UNCHANGED others
  /\ pc = "oc"
  /\ \E cbThrew \in BOOLEAN :
       /\ lastOp' = "completion"
       /\ lastRet' = IF cbThrew THEN "throw" ELSE "none"
       /\ outcomes' = Append(outcomes, cbThrew)
       /\ IF escapesOnComplete(cbThrew)
            THEN \* the error reaches the catch of #executeOnce, then its finally
                 /\ status' = abortStatus("failed")
                 /\ id' = abortId(id)
                 /\ sysRun' = abortRun(id, sysRun)
                 /\ pc' = "idle"
                 /\ handlerExit' = "returned"
                 /\ UNCHANGED <<completeCallbacks, ocIdx, invoked, invokedIn>>
            ELSE IF hasNext(ocIdx, completeCallbacks)
              THEN /\ ocIdx' = ocIdx + 1
                   /\ invoked' = Append(invoked, completeCallbacks[ocIdx + 1])
                   /\ invokedIn' = Append(invokedIn, status)
                   /\ UNCHANGED <<pc, completeCallbacks, id, sysRun, status, handlerExit>>
              ELSE /\ completeCallbacks' = resetCallbacks(completeCallbacks)
                   /\ status' = abortStatus(status)
                   /\ id' = abortId(id)
                   /\ sysRun' = abortRun(id, sysRun)
                   /\ pc' = "idle"
                   /\ handlerExit' = "returned"
                   /\ UNCHANGED <<ocIdx, invoked, invokedIn>>
  /\ UNCHANGED <<delay, isInterval, ticksRemaining, paused, sysDelay>>
  /\ UNCHANGED <<delayArg, handle, tickNo, fireTicks, runTicks, fireGaps, nextCb, lateCbs,
                 atCompletion, everPaused, everAborted, threw>>

\* ------------------------------------------------------------------ system
Next ==
  \/ pause
  \/ start
  \/ abort
  \/ onComplete
  \/ tick
  \/ tickReturn
  \/ tickThrow
  \/ timeoutTick
  \/ idleTick
  \/ executeOnceReturn
  \/ executeOnceThrow
  \/ runOnComplete

Spec == Init /\ [][Next]_vars

TypeOK ==
  /\ delay \in 1 .. MaxDelay
  /\ isInterval \in BOOLEAN
  /\ ticksRemaining \in 0 .. MaxDelay
  /\ id \in Handles \cup {Undefined}
  /\ status \in TaskStatus
  /\ paused \in BOOLEAN
  /\ sysRun \in {"live", "fired", "cleared"}
  /\ pc \in {"idle", "cb", "oc"}
  /\ tickNo \in 0 .. MaxTicks
\* ============================================================== JobPromise
\* (src/unnamed/part_001, JobPromise._startJob)

\* a progress report on every generator step
reportEveryStep(cur, last) == TRUE
\* `system.currentTick !== lastTick`
tickChanged(cur, last) == cur # last
\* `!sentProgress`
notSent(sent) == ~sent

JobInit ==
  /\ NoTask /\ NoBuffer /\ NoInventory /\ NoUtils
  /\ runJobAvailable \in BOOLEAN
  /\ onProgress \in BOOLEAN
  /\ generator \in 0 .. MaxYields
  /\ currentTick \in {0, 1}
  /\ lastTick = 0
  /\ sentProgress = FALSE
  /\ jobPc = IF runJobAvailable THEN "job" ELSE "run"
  /\ settled = "pending"
  /\ reports = 0
  /\ steps = 0
  /\ thenCallbacks = <<>> /\ catchCallbacks = <<>> /\ finallyCallbacks = <<>>
  /\ nextJobCb = 1
  /\ dispatch = "none"
  /\ calls = <<>>
  /\ atDispatch = <<>>

\* the callback lists and what was dispatched to them
cbVars == <<thenCallbacks, catchCallbacks, finallyCallbacks, nextJobCb, dispatch, calls,
            atDispatch>>

\* the host resumes the generator handed to system.runJob: one pass of its loop
runJob ==
  /\ jobPc = "job"
  /\ steps' = steps + 1
  /\ \E genThrows \in BOOLEAN :
       IF genThrows
         THEN /\ settled' = "rejected" /\ jobPc' = "done"
              /\ UNCHANGED <<generator, lastTick, reports>>
         ELSE IF generator = 0
           THEN /\ settled' = "resolved" /\ jobPc' = "done"
                /\ UNCHANGED <<generator, lastTick, reports>>
           ELSE /\ generator' = generator - 1
                /\ IF onProgress /\ tickChanged(currentTick, lastTick)
                     THEN reports' = reports + 1 /\ lastTick' = currentTick
                     ELSE UNCHANGED <<reports, lastTick>>
                /\ UNCHANGED <<jobPc, settled>>
  /\ UNCHANGED <<runJobAvailable, onProgress, currentTick, sentProgress, cbVars>>
  /\ UNCHANGED <<taskAll, bufVars, invVars, utilVars>>

\* one pass of the loop of run(), the fallback without system.runJob; after a
\* step the 4 ms budget may be used up: system.runTimeout(run, 1) and return
run ==
  /\ jobPc = "run"
  /\ steps' = steps + 1
  /\ \E genThrows \in BOOLEAN, timeUp \in BOOLEAN :
       IF genThrows
         THEN /\ settled' = "rejected" /\ jobPc' = "done"
              /\ UNCHANGED <<generator, sentProgress, reports>>
         ELSE IF generator = 0
           THEN /\ settled' = "resolved" /\ jobPc' = "done"
                /\ UNCHANGED <<generator, sentProgress, reports>>
           ELSE /\ generator' = generator - 1
                /\ IF onProgress /\ notSent(sentProgress)
                     THEN reports' = reports + 1 /\ sentProgress' = TRUE
                     ELSE UNCHANGED <<reports, sentProgress>>
                /\ jobPc' = IF timeUp THEN "scheduled" ELSE "run"
                /\ UNCHANGED settled
  /\ UNCHANGED <<runJobAvailable, onProgress, currentTick, lastTick, cbVars>>
  /\ UNCHANGED <<taskAll, bufVars, invVars, utilVars>>

\* a microtask of the promise chain of _startJob is waiting to run
microtaskDue == (settled # "pending" /\ dispatch = "none") \/ dispatch = "reject"

\* the next tick begins (never inside the synchronous run(), nor before the
\* waiting microtasks have run); a scheduled run() starts in it with
\* `let sentProgress = false`
jobTick ==
  /\ jobPc # "run" /\ currentTick < MaxJobTicks
  /\ ~microtaskDue
  /\ currentTick' = currentTick + 1
  /\ reports' = 0
  /\ steps' = 0
  /\ IF jobPc = "scheduled"
       THEN jobPc' = "run" /\ sentProgress' = FALSE
       ELSE UNCHANGED <<jobPc, sentProgress>>
  /\ UNCHANGED <<runJobAvailable, onProgress, generator, lastTick, settled, cbVars>>
  /\ UNCHANGED <<taskAll, bufVars, invVars, utilVars>>

\* the generator part of the job: nothing of it changes
jobRun == <<runJobAvailable, onProgress, generator, currentTick, lastTick, sentProgress,
            jobPc, settled, reports, steps>>

\* then(callback): push; the callback may be one that throws when invoked
then ==
  /\ nextJobCb <= MaxJobCbs
  /\ \E throws \in BOOLEAN :
       thenCallbacks' = Append(thenCallbacks, [id |-> nextJobCb, throws |-> throws])
  /\ nextJobCb' = nextJobCb + 1
  /\ UNCHANGED <<catchCallbacks, finallyCallbacks, dispatch, calls, atDispatch>>
  /\ UNCHANGED <<jobRun, taskAll, bufVars, invVars, utilVars>>

\* catch(callback)
catch ==
  /\ nextJobCb <= MaxJobCbs
  /\ \E throws \in BOOLEAN :
       catchCallbacks' = Append(catchCallbacks, [id |-> nextJobCb, throws |-> throws])
  /\ nextJobCb' = nextJobCb + 1
  /\ UNCHANGED <<thenCallbacks, finallyCallbacks, dispatch, calls, atDispatch>>
  /\ UNCHANGED <<jobRun, taskAll, bufVars, invVars, utilVars>>

\* finally(callback)
finally ==
  /\ nextJobCb <= MaxJobCbs
  /\ \E throws \in BOOLEAN :
       finallyCallbacks' = Append(finallyCallbacks, [id |-> nextJobCb, throws |-> throws])
  /\ nextJobCb' = nextJobCb + 1
  /\ UNCHANGED <<thenCallbacks, catchCallbacks, dispatch, calls, atDispatch>>
  /\ UNCHANGED <<jobRun, taskAll, bufVars, invVars, utilVars>>

\* index of the first callback of cbs that throws, 0 if none does
firstThrow(cbs) ==
  IF \E i \in 1 .. Len(cbs) : cbs[i].throws
    THEN CHOOSE i \in 1 .. Len(cbs) :
           cbs[i].throws /\ \A j \in 1 .. (i - 1) : ~cbs[j].throws
    ELSE 0
\* `cbs.forEach(cb => cb(arg))`: the invocations made, up to the first that throws
forEach(cbs, kind, arg) ==
  LET n == IF firstThrow(cbs) = 0 THEN Len(cbs) ELSE firstThrow(cbs)
  IN [i \in 1 .. n |-> <<kind, cbs[i].id, arg>>]
\* the three lists as a record
callbackLists ==
  [then |-> thenCallbacks, catch |-> catchCallbacks, finally |-> finallyCallbacks]

\* the microtask `.then(value => this._resolve(value))` of a resolved job
jobResolve ==
  /\ settled = "resolved" /\ dispatch = "none"
  /\ atDispatch' = callbackLists
  /\ IF firstThrow(thenCallbacks) # 0
       THEN /\ calls' = calls \o forEach(thenCallbacks, "then", "value")
            /\ dispatch' = "reject"
       ELSE /\ calls' = calls \o forEach(thenCallbacks, "then", "value")
                              \o forEach(finallyCallbacks, "finally", "none")
            /\ dispatch' = IF firstThrow(finallyCallbacks) # 0 THEN "reject" ELSE "finished"
  /\ UNCHANGED <<thenCallbacks, catchCallbacks, finallyCallbacks, nextJobCb>>
  /\ UNCHANGED <<jobRun, taskAll, bufVars, invVars, utilVars>>

\* the microtask `.catch(error => this._reject(error))`: after the generator
\* threw, or after _resolve threw
jobReject ==
  /\ \/ settled = "rejected" /\ dispatch = "none"
     \/ dispatch = "reject"
  /\ atDispatch' = IF dispatch = "none" THEN callbackLists ELSE atDispatch
  /\ LET error == IF settled = "rejected" THEN "error" ELSE "callbackError"
     IN IF firstThrow(catchCallbacks) # 0
          THEN /\ calls' = calls \o forEach(catchCallbacks, "catch", error)
               /\ dispatch' = "unhandled"
          ELSE /\ calls' = calls \o forEach(catchCallbacks, "catch", error)
                                 \o forEach(finallyCallbacks, "finally", "none")
               /\ dispatch' = IF firstThrow(finallyCallbacks) # 0 THEN "unhandled"
                              ELSE "finished"
  /\ UNCHANGED <<thenCallbacks, catchCallbacks, finallyCallbacks, nextJobCb>>
  /\ UNCHANGED <<jobRun, taskAll, bufVars, invVars, utilVars>>

JobNext ==
  \/ runJob
  \/ run
  \/ jobTick
  \/ then
  \/ catch
  \/ finally
  \/ jobResolve
  \/ jobReject

JobSpec == JobInit /\ [][JobNext]_vars

\* the host keeps resuming the job, ticks keep coming and microtasks are run;
\* nothing obliges the caller to register callbacks
JobFair ==
  /\ WF_vars(runJob) /\ WF_vars(run) /\ WF_vars(jobTick)
  /\ WF_vars(jobResolve) /\ WF_vars(jobReject)
JobLiveSpec == JobInit /\ [][JobNext]_vars /\ JobFair

\* ============================================================ MemoryBuffer
\* (src/src/utilsLib/Misc-Utils.js)
Min(a, b) == IF a <= b THEN a ELSE b

\* Array.prototype.splice(0, n): the array without its first n elements
splice(b, n) == SubSeq(b, Min(n, Len(b)) + 1, Len(b))
\* Array.prototype.slice(0, n)
slice(b, n) == SubSeq(b, 1, Min(n, Len(b)))

\* MemoryBuffer.add(datas)
add(b, datas, size) ==
  LET inTotal == Len(datas) + Len(b)
  IN (IF inTotal > size THEN splice(b, inTotal - size) ELSE b) \o datas

\* batch sizes handed to add(), one more than the largest maxSize
Batches == 0 .. (MaxSize + 1)

BufferInit ==
  /\ NoTask /\ NoJob /\ NoInventory /\ NoUtils
  /\ maxSize \in 1 .. MaxSize
  /\ buffer = <<>>
  /\ nextItem = 1
  /\ lastAdd = <<>>
  /\ got = <<>>

bufferAdd ==
  /\ \E n \in Batches :
       /\ nextItem + n - 1 <= MaxItems
       /\ LET datas == [i \in 1 .. n |-> nextItem + i - 1]
          IN /\ buffer' = add(buffer, datas, maxSize)
             /\ lastAdd' = <<buffer, datas>>
       /\ nextItem' = nextItem + n
  /\ UNCHANGED <<maxSize, got>>
  /\ UNCHANGED <<taskAll, jobVars, invVars, utilVars>>

\* MemoryBuffer.get(amount, remove)
bufferGet ==
  /\ \E amount \in Batches, remove \in BOOLEAN :
       LET n == Min(amount, Len(buffer))
       IN /\ got' = slice(buffer, n)
          /\ buffer' = IF remove THEN splice(buffer, n) ELSE buffer
  /\ UNCHANGED <<maxSize, nextItem, lastAdd>>
  /\ UNCHANGED <<taskAll, jobVars, invVars, utilVars>>

\* MemoryBuffer.getFirst(remove)
bufferGetFirst ==
  /\ \E remove \in BOOLEAN :
       IF Len(buffer) = 0
         THEN got' = <<>> /\ UNCHANGED buffer
         ELSE /\ got' = <<buffer[1]>>
              /\ buffer' = IF remove THEN Tail(buffer) ELSE buffer
  /\ UNCHANGED <<maxSize, nextItem, lastAdd>>
  /\ UNCHANGED <<taskAll, jobVars, invVars, utilVars>>

\* MemoryBuffer.getLast(remove)
bufferGetLast ==
  /\ \E remove \in BOOLEAN :
       IF Len(buffer) = 0
         THEN got' = <<>> /\ UNCHANGED buffer
         ELSE /\ got' = <<buffer[Len(buffer)]>>
              /\ buffer' = IF remove THEN SubSeq(buffer, 1, Len(buffer) - 1) ELSE buffer
  /\ UNCHANGED <<maxSize, nextItem, lastAdd>>
  /\ UNCHANGED <<taskAll, jobVars, invVars, utilVars>>

\* MemoryBuffer.clear()
bufferClear ==
  /\ buffer' = <<>>
  /\ got' = <<>>
  /\ UNCHANGED <<maxSize, nextItem, lastAdd>>
  /\ UNCHANGED <<taskAll, jobVars, invVars, utilVars>>

BufferNext ==
  \/ bufferAdd
  \/ bufferGet
  \/ bufferGetFirst
  \/ bufferGetLast
  \/ bufferClear

BufferSpec == BufferInit /\ [][BufferNext]_vars

\* ============================================== InventoryUtils.removeItem
\* (src/src/utilsLib/Inventory-Utils.js)
TypeIds == {"apple", "stick"}
Slots == {Empty} \cup [typeId : TypeIds, amount : 1 .. MaxStack]
\* amounts asked of removeItem: 0 (clear all) up to more than two stacks hold
Amounts == 0 .. (2 * MaxStack + 1)

\* the whole remaining amount taken from one slot, without Math.min
takeRemaining(have, remaining) == remaining
\* `Math.min(item.amount, remaining)`
removeCount(have, remaining) == Min(have, remaining)

\* the loop of removeItem from slot i on
RECURSIVE removeFrom(_, _, _, _, _)
removeFrom(c, i, itemId, amount, remaining) ==
  IF i > Len(c) THEN c
  ELSE IF c[i] # Empty /\ c[i].typeId = itemId
    THEN IF amount = 0
      THEN removeFrom([c EXCEPT ![i] = Empty], i + 1, itemId, amount, remaining)
      ELSE LET count == removeCount(c[i].amount, remaining)
               left == c[i].amount - count
               c2 == [c EXCEPT ![i] = IF left <= 0 THEN Empty
                                        ELSE [typeId |-> itemId, amount |-> left]]
           IN IF remaining - count <= 0
                THEN c2
                ELSE removeFrom(c2, i + 1, itemId, amount, remaining - count)
    ELSE removeFrom(c, i + 1, itemId, amount, remaining)

InventoryInit ==
  /\ NoTask /\ NoJob /\ NoBuffer /\ NoUtils
  /\ \E n \in 1 .. MaxSlots : container \in [1 .. n -> Slots]
  /\ before = <<>>
  /\ request = <<>>
  /\ invPc = "ready"

\* InventoryUtils.removeItem(player, itemId, amount)
removeItem ==
  /\ \E itemId \in TypeIds, amount \in Amounts :
       /\ container' = removeFrom(container, 1, itemId, amount, amount)
       /\ request' = <<itemId, amount>>
  /\ before' = container
  /\ invPc' = "removed"
  /\ UNCHANGED <<taskAll, jobVars, bufVars, utilVars>>

InventoryNext == removeItem

InventorySpec == InventoryInit /\ [][InventoryNext]_vars

\* ====================================== AngleUtils.interpolateCircular
\* (src/unnamed/part_000; the copy in src/unnamed/part_001 is identical)
FullTurn == 360
HalfTurn == 180
Angles == {k * AngleStep : k \in 0 .. ((FullTurn - 1) \div AngleStep)}

\* `let delta = b - a; if (delta > 180) delta -= 360; if (delta < 180) delta += 360;`
delta(a, b) ==
  LET d0 == b - a
      d1 == IF d0 > HalfTurn THEN d0 - FullTurn ELSE d0
  IN IF d1 < HalfTurn THEN d1 + FullTurn ELSE d1

AngleInit ==
  /\ NoTask /\ NoJob /\ NoBuffer /\ NoInventory /\ NoLoader /\ NoJump
  /\ angleA \in Angles
  /\ angleB \in Angles
  /\ angleT \in 0 .. TDen
  /\ angleDelta = 0
  /\ angleResult = 0
  /\ anglePc = "args"

\* interpolateCircular(a, b, t) with t = angleT / TDen; the result a + delta * t
\* is kept in units of 1 / TDen
interpolateCircular ==
  /\ anglePc = "args"
  /\ angleDelta' = delta(angleA, angleB)
  /\ angleResult' = angleA * TDen + delta(angleA, angleB) * angleT
  /\ anglePc' = "done"
  /\ UNCHANGED <<angleA, angleB, angleT>>
  /\ UNCHANGED <<taskAll, jobVars, bufVars, invVars, loaderVars, jumpVars>>

AngleNext == interpolateCircular

AngleSpec == AngleInit /\ [][AngleNext]_vars

\* ============================================ DimensionUtils.chunkLoader
\* (src/src/utilsLib/Dimension-Utils.js)
\* clock steps that may pass between two polling ticks
Elapsed == 0 .. 2

LoaderInit ==
  /\ NoTask /\ NoJob /\ NoBuffer /\ NoInventory /\ NoAngle /\ NoJump
  /\ loaderPc = "call"
  /\ pollInterval = "none"
  /\ clock = 0
  /\ loaderTicks = 0
  /\ addCommands = 0
  /\ removeCommands = 0
  /\ clearRuns = 0
  /\ promise = "pending"
  /\ loadedNow = FALSE
  /\ expiredNow = FALSE

\* chunkLoader(loc, dim) up to `return new Promise(...)`
chunkLoader ==
  /\ loaderPc = "call"
  /\ \E validDim \in BOOLEAN, validLoc \in BOOLEAN :
       IF ~validDim \/ ~validLoc
         THEN /\ loaderPc' = "returned"
              /\ UNCHANGED <<pollInterval, addCommands>>
         ELSE /\ loaderPc' = "polling"
              /\ addCommands' = addCommands + 1
              /\ pollInterval' = "live"
  /\ UNCHANGED <<clock, loaderTicks, removeCommands, clearRuns, promise, loadedNow, expiredNow>>
  /\ UNCHANGED <<taskAll, jobVars, bufVars, invVars, angleVars, jumpVars>>

\* what res / rej do to the promise: the first settles it, a later one does nothing
settle(p, loaded, expired) ==
  IF p # "pending" THEN p
  ELSE IF loaded THEN "resolved"
  ELSE IF expired THEN "rejected"
  ELSE p

\* how many of the two branches of the polling callback run
branches(loaded, expired) == (IF loaded THEN 1 ELSE 0) + (IF expired THEN 1 ELSE 0)

\* the polling callback of system.runInterval runs on a tick
poll ==
  /\ loaderPc = "polling" /\ pollInterval = "live" /\ loaderTicks < MaxLoaderTicks
  /\ loaderTicks' = loaderTicks + 1
  /\ \E elapsed \in Elapsed, loaded \in BOOLEAN :
       LET now == Min(clock + elapsed, MaxWait + 1)
           expired == now > MaxWait
       IN /\ clock' = now
          /\ loadedNow' = loaded
          /\ expiredNow' = expired
          /\ clearRuns' = clearRuns + branches(loaded, expired)
          /\ removeCommands' = removeCommands + branches(loaded, expired)
          /\ promise' = settle(promise, loaded, expired)
          /\ pollInterval' = IF branches(loaded, expired) > 0 THEN "cleared" ELSE pollInterval
          /\ loaderPc' = IF branches(loaded, expired) > 0 THEN "stopped" ELSE loaderPc
  /\ UNCHANGED addCommands
  /\ UNCHANGED <<taskAll, jobVars, bufVars, invVars, angleVars, jumpVars>>

LoaderNext ==
  \/ chunkLoader
  \/ poll

LoaderSpec == LoaderInit /\ [][LoaderNext]_vars

\* ================================================== CustomEvents.onJump
\* (src/utilities/Custom-Events.js)
Samples == {"true", "false"}

\* `jumpingPlayers.get(player) || false`
wasJumping(p) == jumpingPlayers[p] = "true"

JumpInit ==
  /\ NoTask /\ NoJob /\ NoBuffer /\ NoInventory /\ NoAngle /\ NoLoader
  /\ jumpingPlayers = [p \in Players |-> "unset"]
  /\ isJumping = [p \in Players |-> "skipped"]
  /\ lastSample = [p \in Players |-> "none"]
  /\ jumpCalls = [p \in Players |-> 0]
  /\ callBackThrew = FALSE

\* one run of the interval callback of onJump: forEach over the players in
\* order; a callBack that throws ends the forEach at that player
onJump ==
  /\ \E cur \in [Players -> Samples], throws \in [Players -> BOOLEAN] :
       LET rises(p) == cur[p] = "true" /\ ~wasJumping(p)
           stops(p) == rises(p) /\ throws[p]
           \* the player at which the forEach ends, MaxPlayers + 1 if it runs through
           stop == IF \E p \in Players : stops(p)
                     THEN CHOOSE p \in Players : stops(p) /\ \A q \in 1 .. (p - 1) : ~stops(q)
                     ELSE MaxPlayers + 1
       IN /\ isJumping' = [p \in Players |-> IF p <= stop THEN cur[p] ELSE "skipped"]
          /\ lastSample' = [p \in Players |->
                              IF isJumping[p] # "skipped" THEN isJumping[p] ELSE lastSample[p]]
          /\ jumpCalls' = [p \in Players |-> IF p <= stop /\ rises(p) THEN 1 ELSE 0]
          /\ jumpingPlayers' = [p \in Players |->
                                  IF p >= stop THEN jumpingPlayers[p]
                                  ELSE IF rises(p) THEN "true"
                                  ELSE IF cur[p] = "false" /\ wasJumping(p) THEN "false"
                                  ELSE jumpingPlayers[p]]
          /\ callBackThrew' = (callBackThrew \/ stop <= MaxPlayers)
  /\ UNCHANGED <<taskAll, jobVars, bufVars, invVars, angleVars, loaderVars>>

JumpNext == onJump

JumpSpec == JumpInit /\ [][JumpNext]_vars

\* =================================================================== claims

\* the edges of the task state machine
Edges ==
  { <<"running", "paused">>, <<"paused", "running">>, <<"running", "completed">>,
    <<"running", "failed">>, <<"running", "aborted">>, <<"paused", "aborted">> }

\* C1: every change of the status is one of the defined edges (running->completed
\* for one-shot tasks only); completed, failed and aborted are never left.
C1_OnlyDefinedEdges ==
  [][status' # status =>
       /\ <<status, status'>> \in Edges
       /\ (status' = "completed" => ~isInterval)]_vars

\* what pause() and start() must leave alone when they throw
controlFrame == <<status, paused, ticksRemaining, id, sysRun, sysDelay, completeCallbacks>>

\* C2: pause() on a running task sets the status to paused and returns the task;
\* in any other status it throws and changes nothing.
C2_Pause ==
  [][lastOp' = "pause" =>
       IF status = "running"
         THEN status' = "paused" /\ paused' = TRUE /\ lastRet' = "this"
         ELSE lastRet' = "throw" /\ UNCHANGED controlFrame]_vars

\* pause() has just thrown on a task in a terminal status, inside or outside a handler
C2_Witness ==
  /\ lastOp = "pause" /\ lastRet = "throw"
  /\ status \in {"completed", "failed", "aborted"}
  /\ everPaused

\* C3: start() on a paused task sets the status to running and returns the task;
\* in any other status it throws and changes nothing.
C3_Start ==
  [][lastOp' = "start" =>
       IF status = "paused"
         THEN status' = "running" /\ paused' = FALSE /\ lastRet' = "this"
         ELSE lastRet' = "throw" /\ UNCHANGED controlFrame]_vars

\* start() has resumed a paused task, and later thrown on a terminal one
C3_Witness ==
  /\ lastOp = "start" /\ lastRet = "throw"
  /\ status \in {"completed", "failed", "aborted"}
  /\ everPaused
\* ---------------------------------------------------------------- C4
Range(q) == {q[i] : i \in 1 .. Len(q)}
NoDuplicates(q) == \A i, j \in 1 .. Len(q) : q[i] = q[j] => i = j
IsPrefix(p, q) == Len(p) <= Len(q) /\ SubSeq(q, 1, Len(p)) = p

\* the task was never paused or aborted and its callback never threw
Undisturbed == ~everPaused /\ ~everAborted /\ ~threw

\* C4: an interval task with delay d that is never paused or aborted and whose
\* callback never throws fires exactly on the ticks d, 2d, 3d, ... after creation.
C4_IntervalFiresOnMultiples ==
  (isInterval /\ Undisturbed) =>
    fireTicks = {t \in 1 .. tickNo : t % delay = 0}

\* an undisturbed interval task with a delay above 1 has fired twice
C4_Witness ==
  /\ isInterval /\ Undisturbed /\ delay > 1
  /\ Cardinality(fireTicks) = 2 /\ pc = "idle" /\ tickNo > 2 * delay

\* ---------------------------------------------------------------- C5
\* C5: a tick delivered to a paused interval task fires nothing and leaves the
\* countdown alone; the countdown is the number of running ticks still to go, so
\* every firing comes after exactly `delay` running ticks, paused ticks not counted.
C5_PausedTicksDoNotCount ==
  /\ [][(isInterval /\ status = "paused" /\ tickNo' = tickNo + 1) =>
          (fireTicks' = fireTicks /\ ticksRemaining' = ticksRemaining /\ pc' = pc)]_vars
  /\ [](isInterval => fireGaps \subseteq {delay})
  /\ []((isInterval /\ pc = "idle" /\ status \in {"running", "paused"}) =>
          ticksRemaining = delay - runTicks)

\* a firing that a pause in the middle of a countdown pushed off the multiples of d
C5_Witness ==
  /\ isInterval /\ delay > 1 /\ everPaused /\ ~everAborted /\ ~threw
  /\ \E t \in fireTicks : t % delay # 0

\* ---------------------------------------------------------------- C6
\* C6 as stated: every one-shot task fires exactly once and then is completed or
\* failed; checked once the one-shot registration is gone and no handler runs.
C6_FiresExactlyOnce ==
  (~isInterval /\ sysRun # "live" /\ pc = "idle") =>
    (Cardinality(fireTicks) = 1 /\ status \in {"completed", "failed"})

\* C6 amended: a one-shot task fires at most once and never before tick d; it does
\* fire when its registration fires while the status is running; and once its
\* callback is over the status is completed if it returned, failed if it threw.
C6_OneShot ==
  /\ [](~isInterval => Cardinality(fireTicks) <= 1 /\ \A t \in fireTicks : t >= delay)
  /\ [][(~isInterval /\ sysRun = "live" /\ sysRun' = "fired" /\ status = "running") =>
          (pc' = "cb" /\ fireTicks' = {tickNo'})]_vars
  /\ []((~isInterval /\ fireTicks # {} /\ pc # "cb") =>
          status = (IF threw THEN "failed" ELSE "completed"))

\* a one-shot task with a delay above 1, paused and resumed while it waited, has
\* fired on tick d and completed
C6_Witness ==
  /\ ~isInterval /\ delay > 1 /\ fireTicks = {delay} /\ pc = "idle"
  /\ status = "completed" /\ everPaused

C8_CompletionOrder ==
  /\ [](pc = "oc" =>
          /\ ~isInterval /\ status = "completed"
          /\ IsPrefix(atCompletion, completeCallbacks)
          /\ invoked = SubSeq(completeCallbacks, 1, ocIdx))
  /\ [][(pc = "oc" /\ pc' = "idle") => IsPrefix(atCompletion, invoked)]_vars
  /\ [][(~isInterval /\ pc # "idle") => tickNo' = tickNo]_vars
  /\ []((~isInterval /\ status = "completed" /\ pc = "idle") =>
          (IsPrefix(atCompletion, invoked) /\ NoDuplicates(invoked)))

\* two callbacks registered before completion have been invoked in order
C8_Witness ==
  /\ status = "completed" /\ pc = "idle"
  /\ Len(atCompletion) = MaxCbs /\ invoked = atCompletion /\ lateCbs = {}

\* ---------------------------------------------------------------- C9
\* C9: a completion callback registered when the status is already completed is
\* never invoked.
C9_LateCallbacksNeverInvoked == Range(invoked) \cap lateCbs = {}

\* ---------------------------------------------------------------- C10
\* C10: once an interval task's callback has thrown, the status is failed, the
\* tick-source registration is released and the callback is not invoked again.
C10_FailedIntervalStops ==
  (isInterval /\ threw) => (pc = "idle" /\ status = "failed" /\ sysRun # "live")
\* ---------------------------------------------------------------- C11
\* C11: a task whose status is completed, failed or aborted, with none of its
\* handlers executing, holds no live tick-source registration, whatever the handle.
C11_TerminalTaskReleased ==
  (status \in {"completed", "failed", "aborted"} /\ pc = "idle") => sysRun # "live"

\* ---------------------------------------------------------------- C12
\* C12: abort() never throws, a further abort() finds nothing left to change, and
\* countdown, paused flag and completion list are not touched by it.
C12_AbortIdempotent ==
  /\ [][lastOp' = "abort" =>
          /\ lastRet' = "this"
          /\ abortId(id') = id'
          /\ abortRun(id', sysRun') = sysRun'
          /\ abortStatus(status') = status'
          /\ UNCHANGED <<ticksRemaining, paused, completeCallbacks, sysDelay>>]_vars
  /\ [][(lastOp = "abort" /\ lastOp' = "abort") =>
          (lastRet' = "this" /\ UNCHANGED <<taskVars, sysVars>>)]_vars

\* abort() called again on an aborted task whose registration it had released
C12_Witness ==
  /\ lastOp = "abort" /\ lastRet = "this" /\ everAborted
  /\ status = "aborted" /\ id = Undefined /\ sysRun = "cleared" /\ everPaused

\* ---------------------------------------------------------------- C13
\* C13: once abort() has made the status aborted it stays aborted, the task's
\* callback is not invoked again and no completion callback is invoked.
C13_AbortedStaysAborted ==
  [][status = "aborted" =>
       (status' = "aborted" /\ fireTicks' = fireTicks /\ invoked' = invoked)]_vars

\* ---------------------------------------------------------------- C14
\* C14: the stored delay is at least 1, and a task created with a delay argument
\* <= 0 is constructed in the state of a delay-1 task and fires like one: an
\* interval task on every running tick, a one-shot task on tick 1 only.
C14_DelayCoerced ==
  /\ delay >= 1
  /\ delayArg <= 0 =>
       /\ delay = 1
       /\ lastOp = "new" =>
            (ticksRemaining = 1 /\ sysDelay = 1 /\ status = "running" /\ ~paused
               /\ sysRun = "live")
       /\ isInterval => fireGaps \subseteq {1}
       /\ (isInterval /\ Undisturbed) => fireTicks = 1 .. tickNo
       /\ ~isInterval => fireTicks \subseteq {1}

\* an interval task created with a negative delay has fired on each of several ticks
C14_Witness ==
  /\ delayArg < 0 /\ isInterval /\ Undisturbed
  /\ pc = "idle" /\ Cardinality(fireTicks) > 2

\* ---------------------------------------------------------------- C15
\* C15: a completion callback that throws does not stop the pass: the next
\* callback of the list is invoked, and the status stays completed.
C15_CompletionErrorContained ==
  /\ [][(pc = "oc" /\ lastOp' = "completion" /\ lastRet' = "throw") =>
          /\ status' = "completed"
          /\ IF ocIdx < Len(completeCallbacks)
               THEN pc' = "oc" /\ invoked' = Append(invoked, completeCallbacks[ocIdx + 1])
               ELSE pc' = "idle" /\ invoked' = invoked]_vars
  /\ []((\E i \in 1 .. Len(outcomes) : outcomes[i]) => status = "completed")
  /\ []((~isInterval /\ status = "completed" /\ pc = "idle") =>
          (Len(outcomes) = Len(invoked) /\ IsPrefix(atCompletion, invoked)))

\* the first of two completion callbacks threw and the second was still invoked
C15_Witness ==
  /\ status = "completed" /\ pc = "idle"
  /\ Len(outcomes) = MaxCbs /\ outcomes[1] /\ invoked = atCompletion

\* ---------------------------------------------------------------- C16
\* C16: an error thrown by the task's callback never leaves #tick or
\* #executeOnce: the handler returns to the tick source and the status is failed.
C16_CallbackErrorsCaught ==
  /\ [](handlerExit # "threw")
  /\ [][lastOp' = "throw" =>
          (status' = "failed" /\ handlerExit' = "returned" /\ pc' = "idle")]_vars
  /\ []((threw /\ pc = "idle") => status = "failed")

\* the callback of an interval task and of a one-shot task has thrown
C16_Witness == threw /\ handlerExit = "returned" /\ status = "failed" /\ lastOp = "throw"

\* ---------------------------------------------------------------- C17
\* C17: right after construction the status is running, and it is never pending.
C17_NeverPending == status # "pending" /\ (lastOp = "new" => status = "running")

\* a task as runInterval / runTimeout returned it
C17_Witness == lastOp = "new" /\ status = "running" /\ tickNo = 0 /\ sysRun = "live"
\* ---------------------------------------------------------------- C18
\* C18: within one tick onProgress is called at most once, however many generator
\* steps run in it, with system.runJob and with the runTimeout fallback.
C18_ProgressOncePerTick == reports <= 1

\* several generator steps in one tick, one report, on the system.runJob path
C18_Witness == runJobAvailable /\ onProgress /\ steps > 2 /\ reports = 1

\* ---------------------------------------------------------------- C19
\* C19: a MemoryBuffer never holds more than maxSize items.
C19_NeverExceedsMaxSize == Len(buffer) <= maxSize

\* ---------------------------------------------------------------- C20
RECURSIVE Total(_, _, _)
\* the amount of itemId in the slots of c from slot i on
Total(c, itemId, i) ==
  IF i > Len(c) THEN 0
  ELSE (IF c[i].typeId = itemId THEN c[i].amount ELSE 0) + Total(c, itemId, i + 1)

C21_PausedOneShotNeverFires ==
  /\ [][(sysRun = "live" /\ sysRun' = "fired" /\ status = "paused")
          => (fireTicks' = {} /\ pc' = "idle")]_vars
  /\ [][(sysRun = "fired" /\ fireTicks = {} /\ pc = "idle")
          => (/\ fireTicks' = {} /\ pc' = "idle" /\ sysRun' = "fired"
              /\ status' \notin {"completed", "failed"}
              /\ (status = "paused" /\ lastOp' = "start") => status' = "running")]_vars

\* paused when the registration fired, started afterwards, ticks went by unfired
C21_Witness ==
  /\ ~isInterval /\ sysRun = "fired" /\ fireTicks = {}
  /\ everPaused /\ ~everAborted
  /\ status = "running" /\ lastOp = "tick" /\ tickNo > delay + 1

\* ---------------------------------------------------------------- C22
\* C22: an interval task is never in status completed and none of the completion
\* callbacks registered on it is ever invoked.
C22_IntervalNeverCompletes ==
  isInterval => (status # "completed" /\ invoked = <<>> /\ atCompletion = <<>>)

\* an interval task with a completion callback registered has fired twice
C22_Witness ==
  /\ isInterval /\ completeCallbacks # <<>>
  /\ Cardinality(fireTicks) >= 2 /\ pc = "idle" /\ status = "running"

\* ---------------------------------------------------------------- C27
\* C27: for an interval task that is running or paused with no handler on the
\* stack, 1 <= ticksRemaining <= delay.
C27_CountdownInRange ==
  (isInterval /\ status \in {"running", "paused"} /\ pc = "idle")
    => (1 <= ticksRemaining /\ ticksRemaining <= delay)

\* one tick short of the second firing, paused
C27_Witness ==
  /\ isInterval /\ delay >= 2 /\ pc = "idle" /\ status = "paused"
  /\ ticksRemaining = 1 /\ fireTicks # {}

\* ---------------------------------------------------------------- C30
\* C30: status running implies the paused flag is false, and status paused
\* implies it is true, in every state, inside handlers included.
C30_PausedFlagAgrees ==
  /\ status = "running" => ~paused
  /\ status = "paused" => paused

\* paused, resumed by start(), and paused again from inside the callback
C30_Witness ==
  /\ isInterval /\ Cardinality(fireTicks) >= 2
  /\ status = "paused" /\ paused /\ pc = "cb" /\ lastOp = "pause"
\* ---------------------------------------------------------------- C23
\* how often callback id of the given kind has been invoked
Invocations(kind, cb) ==
  Cardinality({i \in DOMAIN calls : calls[i][1] = kind /\ calls[i][2] = cb})
\* every callback of cbs was invoked once, with arg
EachOnce(cbs, kind, arg) ==
  \A i \in DOMAIN cbs :
    /\ Invocations(kind, cbs[i].id) = 1
    /\ \E k \in DOMAIN calls : calls[k] = <<kind, cbs[i].id, arg>>
NoneOf(kind) == \A k \in DOMAIN calls : calls[k][1] # kind

\* C23: once a job has settled and its callbacks were dispatched, whatever they
\* do: after a generator that returned, every then-callback registered by then
\* was invoked once with the value, no catch-callback was invoked and every
\* finally-callback was invoked once; after a generator that threw, every
\* catch-callback once with the error, no then-callback, every finally-callback once.
C23_SettlesOneWay ==
  (settled # "pending" /\ dispatch \in {"finished", "unhandled"}) =>
    IF settled = "resolved"
      THEN /\ EachOnce(atDispatch.then, "then", "value")
           /\ NoneOf("catch")
           /\ EachOnce(atDispatch.finally, "finally", "none")
      ELSE /\ EachOnce(atDispatch.catch, "catch", "error")
           /\ NoneOf("then")
           /\ EachOnce(atDispatch.finally, "finally", "none")

\* ---------------------------------------------------------------- C24
Registered(cbs, cb) == \E i \in DOMAIN cbs : cbs[i].id = cb

\* C24: a callback registered with then() (catch(), finally()) on a job that
\* completed successfully (failed, settled) is eventually invoked, whether it
\* was registered before or after the job settled.
C24_CallbacksEventuallyInvoked ==
  \A cb \in 1 .. MaxJobCbs :
    /\ (settled = "resolved" /\ Registered(thenCallbacks, cb)) ~> (Invocations("then", cb) > 0)
    /\ (settled = "rejected" /\ Registered(catchCallbacks, cb)) ~> (Invocations("catch", cb) > 0)
    /\ (settled # "pending" /\ Registered(finallyCallbacks, cb))
         ~> (Invocations("finally", cb) > 0)
\* ---------------------------------------------------------------- C25
\* the longest suffix of q that has at most n elements
LongestSuffix(q, n) == SubSeq(q, Len(q) - Min(n, Len(q)) + 1, Len(q))
\* items are handed to add() in increasing order: oldest first is increasing
OldestFirst(q) == \A i, j \in DOMAIN q : i < j => q[i] < q[j]

\* C25: right after add(datas) the buffer is the longest suffix of the previous
\* contents followed by datas that has at most maxSize items; the buffer is
\* always in insertion order and get() / getFirst() return its oldest items,
\* oldest first.
C25_EvictsOldest ==
  /\ [][lastAdd' # lastAdd
          => buffer' = LongestSuffix(lastAdd'[1] \o lastAdd'[2], maxSize)]_vars
  /\ [](OldestFirst(buffer) /\ OldestFirst(got))
  /\ [][(got' # got /\ buffer # <<>> /\ got' # <<>> /\ got'[1] # buffer[Len(buffer)])
          => got'[1] = buffer[1]]_vars
\* ---------------------------------------------------------------- C26
\* C26: for integer angles a, b in [0, 360) the delta interpolateCircular scales
\* by t is between -180 and 180 and congruent to b - a modulo 360; the result
\* is a at t = 0 and congruent to b modulo 360 at t = 1.
C26_ShortestArc ==
  anglePc = "done" =>
    /\ 0 - HalfTurn <= angleDelta /\ angleDelta <= HalfTurn
    /\ (angleDelta - (angleB - angleA)) % FullTurn = 0
    /\ angleT = 0 => angleResult = angleA * TDen
    /\ angleT = TDen => (angleResult - angleB * TDen) % (FullTurn * TDen) = 0

\* ---------------------------------------------------------------- C28
\* C28: when chunkLoader has stopped polling, its interval was cleared, exactly
\* one `tickingarea remove` command was issued for the one `tickingarea add`,
\* and the promise is settled: resolved if the block was loaded, rejected on
\* timeout; also when the block is loaded on the tick the timeout has expired.
C28_ReleasedExactlyOnce ==
  /\ loaderPc = "stopped" =>
       /\ pollInterval = "cleared"
       /\ addCommands = 1 /\ removeCommands = 1
       /\ promise = IF loadedNow THEN "resolved" ELSE "rejected"
  /\ removeCommands <= addCommands

\* ---------------------------------------------------------------- C29
\* C29: on every tick, a player whose isJumping was read gets exactly one callBack
\* invocation if it was read true and the previous reading was not true (false,
\* or none yet), and none otherwise.
C29_OncePerRisingEdge ==
  \A p \in Players :
    /\ isJumping[p] = "skipped" => jumpCalls[p] = 0
    /\ isJumping[p] # "skipped" =>
         jumpCalls[p] = (IF isJumping[p] = "true" /\ lastSample[p] # "true" THEN 1 ELSE 0)
====
